---- MODULE Spec2Model ----
(***************************************************************************)
(* SMS gateway: ingress API (controllers.Sms.SendSms), JetStream work      *)
(* queues (streams Sms and SmsExpress) and the dispatch worker             *)
(* (workers.Sms.handler / handleNormalSms / handleExpressSms) over the     *)
(* users / phone_numbers / sms tables.                                     *)
(*                                                                         *)
(* Money is counted in hundredths (the column is DECIMAL(10,2)); a         *)
(* pgtype.Numeric is a record [Int, Exp] standing for Int * 10^Exp.        *)
(* A string is the sequence of its characters, time is counted in ticks.   *)
(***************************************************************************)
EXTENDS Integers, Sequences, FiniteSets, TLC

VARIABLES
    cost,      \* process-wide pgtype.Numeric, scanned once from sms.cost
    balance,   \* users.balance, committed value per user id (hundredths)
    lock,      \* row lock on users(id) held by an open transaction's UPDATE
    sms,       \* committed rows of table sms, in commit order
    msgs,      \* every message the broker stored, index = stream sequence
    hs,        \* worker handler tasks, one per (worker process, stream)
    reqs,      \* API request tasks (slots), each running SendSms
    debits,    \* history: committed SubBalance updates per message sequence
    credits,   \* history: number of AddBalance credits applied
    filt,      \* one call of Subject.Filter: receiver, arguments, result
    now,       \* the clock, in ticks
    js,        \* the broker's streams and consumers, each worker's nats.Consumer
    nd         \* history: deliveries of each message (the consumer's NumDelivered)

vars == <<cost, balance, lock, sms, msgs, hs, reqs, debits, credits, filt, now, js, nd>>

----------------------------------------------------------------------------
(* Bounds of the model *)

MaxMsgs == 2       \* messages ever stored by the broker
MaxCredits == 1    \* credit operations ever applied
MaxStr == 4        \* characters of a subject handed to Filter
MaxPat == 2        \* tokens of a pattern handed to Filter
MaxTime == 5       \* ticks the clock runs for
NormalRate == 2    \* sms.normal.ratelimit, in ticks
ExpressRate == 1   \* sms.express.ratelimit, in ticks
MaxCalls == 3      \* calls made on the Base and Consumer objects
MaxBurst == 3      \* messages stored while the two priorities compete
MaxDeliveries == 2  \* deliveries of one message that are counted

----------------------------------------------------------------------------
(* Subject grammar *)

\* A string is the sequence of its characters; a token of the subject grammar,
\* which holds no dot, counts as one character.
Dot == "."

SMS == <<"sms">>
EX == <<"ex">>
SEND == <<"send">>
REQ == <<"request">>
STAT == <<"status">>
ERR == <<"error">>
ANY == <<"*">>

\* strings.Join(s, sep)
RECURSIVE Join(_, _)
Join(s, sep) ==
    IF s = <<>> THEN <<>>
    ELSE IF Len(s) = 1 THEN s[1]
    ELSE s[1] \o sep \o Join(Tail(s), sep)

MakeSubject(s) == Join(s, <<Dot>>)

\* splitting at the first separator only
SplitOnce(str, sep) ==
    IF \A i \in 1..Len(str) : str[i] # sep THEN <<str>>
    ELSE LET i == CHOOSE k \in 1..Len(str) :
                      str[k] = sep /\ \A j \in 1..(k - 1) : str[j] # sep
         IN  <<SubSeq(str, 1, i - 1), SubSeq(str, i + 1, Len(str))>>

\* strings.Split(str, sep) for a one-character separator: the pieces between
\* the separators, one more piece than there are separators
RECURSIVE Split(_, _)
Split(str, sep) ==
    IF \A i \in 1..Len(str) : str[i] # sep THEN <<str>>
    ELSE LET i == CHOOSE k \in 1..Len(str) :
                      str[k] = sep /\ \A j \in 1..(k - 1) : str[j] # sep
         IN  <<SubSeq(str, 1, i - 1)>> \o Split(SubSeq(str, i + 1, Len(str)), sep)

\* comparing only the positions subject and pattern both have
FilterCommonPrefix(sub, subs) ==
    LET parts == Split(sub, Dot)
        n == IF Len(parts) < Len(subs) THEN Len(parts) ELSE Len(subs)
    IN  \A v \in 1..n : subs[v] = ANY \/ parts[v] = subs[v]

\* Subject.Filter
Filter(sub, subs) ==
    LET parts == Split(sub, Dot)
    IN  IF Len(parts) # Len(subs) THEN FALSE
        ELSE \A v \in 1..Len(parts) : subs[v] = ANY \/ parts[v] = subs[v]

NORMAL_SMS_CONSUMER_NAME == "Sms"
EXPRESS_SMS_CONSUMER_NAME == "SmsExpress"

\* Subjects bound to each stream by BindStreams / bindConsumer
NormalSubjects ==
    { MakeSubject(<<SMS, SEND, REQ>>), MakeSubject(<<SMS, SEND, STAT>>),
      MakeSubject(<<SMS, SEND, ERR>>) }

ExpressSubjects ==
    { MakeSubject(<<SMS, EX, SEND, REQ>>), MakeSubject(<<SMS, EX, SEND, STAT>>),
      MakeSubject(<<SMS, EX, SEND, ERR>>) }

StreamSubjects(name) ==
    IF name = NORMAL_SMS_CONSUMER_NAME THEN NormalSubjects ELSE ExpressSubjects

Streams == {NORMAL_SMS_CONSUMER_NAME, EXPRESS_SMS_CONSUMER_NAME}

Subjects == UNION { StreamSubjects(n) : n \in Streams }

StreamOf(sub) ==
    IF sub \in NormalSubjects THEN NORMAL_SMS_CONSUMER_NAME ELSE EXPRESS_SMS_CONSUMER_NAME

----------------------------------------------------------------------------
(* Store fixture: the rows of users and phone_numbers *)

Users == {1, 2}

\* phone_numbers.id -> phone_numbers.user_id
PhoneOwner == (1 :> 1) @@ (2 :> 2)

\* ids no row has (the tests use user_id 99999)
Missing == 9

\* no transaction holds the row lock
None == <<>>

----------------------------------------------------------------------------
(* pgtype.Numeric *)

Pow10(n) == IF n = 0 THEN 1 ELSE IF n = 1 THEN 10 ELSE 100

Exps == {-2, -1, 0}

\* numeric value of [Int, Exp] in hundredths
Hundredths(n) == n.Int * Pow10(n.Exp + 2)

\* every (mantissa, exponent) pair a driver may hand back for value v
NumericReps(v) == { [Int |-> v \div Pow10(e + 2), Exp |-> e] :
                      e \in { x \in Exps : v % Pow10(x + 2) = 0 } }

\* Numeric.Float64Value: the decimal value as a float64 (exact on this range)
Float64Value(n) == Hundredths(n)

----------------------------------------------------------------------------
(* Payloads *)

\* sqlc.Sm as far as the envelope carries it
Sm(u, p, status) ==
    [user_id |-> u, phone_number_id |-> p, to_phone_number |-> "+0987654321",
     message |-> "hi", status |-> status]

\* json.Marshal of an envelope / bytes that are no JSON object
Marshal(s) == [kind |-> "json", sms |-> s]
RawBytes == [kind |-> "raw"]

\* json.Unmarshal(msg.Data(), sms)
Unmarshal(data) ==
    IF data.kind = "json" THEN [err |-> FALSE, sms |-> data.sms]
    ELSE [err |-> TRUE]

\* a request body of POST /sms as the client wrote it: ok = it parses as JSON;
\* a member the body lacks has the zero value of its type; Status = the
\* "status" member it carries ("" = none), a member the struct BindJSON fills
\* has no field for
Body(ok, u, p, status) ==
    [ok |-> ok, UserID |-> u, PhoneNumberID |-> p,
     ToPhoneNumber |-> "+0987654321", Message |-> "hi", Status |-> status]

Bodies ==
    { Body(TRUE, 1, 1, "sent"),
      Body(TRUE, Missing, 1, ""),
      Body(FALSE, 0, 0, "") }

\* more bodies the API accepts or rejects: every status a client may send
\* along, another text, another sender
EnvelopeBodies ==
    Bodies \cup { Body(TRUE, 1, 1, st) : st \in {"", "pending", "failed"} }
           \cup { [Body(TRUE, 2, 2, "delivered") EXCEPT !.Message = "yo",
                                                        !.ToPhoneNumber = "+1"] }

\* binding the body straight into the envelope, its status included
EnvelopeOfBoundBody(body) ==
    [user_id |-> body.UserID, phone_number_id |-> body.PhoneNumberID,
     to_phone_number |-> body.ToPhoneNumber, message |-> body.Message,
     status |-> body.Status]

\* the sqlc.Sm SendSms builds from the bound request
Envelope(body) ==
    [user_id |-> body.UserID, phone_number_id |-> body.PhoneNumberID,
     to_phone_number |-> body.ToPhoneNumber, message |-> body.Message,
     status |-> "pending"]

\* what publishers other than the API put on the streams (the integration
\* tests publish raw bytes, an envelope of a user no row has, express
\* requests, and status messages)
ForeignMessages ==
    { <<MakeSubject(<<SMS, SEND, REQ>>), RawBytes>>,
      <<MakeSubject(<<SMS, SEND, REQ>>), Marshal(Sm(Missing, 1, "pending"))>>,
      <<MakeSubject(<<SMS, EX, SEND, REQ>>), Marshal(Sm(1, 1, "pending"))>>,
      <<MakeSubject(<<SMS, SEND, STAT>>), RawBytes>>,
      <<MakeSubject(<<SMS, SEND, ERR>>), RawBytes>>,
      <<MakeSubject(<<SMS, EX, SEND, STAT>>), RawBytes>>,
      <<MakeSubject(<<SMS, EX, SEND, ERR>>), RawBytes>> }

\* what the worker tests publish on the streams: the messages above, and
\* well-formed normal requests of users 1 and 2
WorkerMessages ==
    ForeignMessages \cup
        { <<MakeSubject(<<SMS, SEND, REQ>>), Marshal(Sm(1, 1, "pending"))>>,
          <<MakeSubject(<<SMS, SEND, REQ>>), Marshal(Sm(2, 2, "pending"))>> }

----------------------------------------------------------------------------
(* Streams and consumers: nats.Base and nats.Consumer *)

\* jetstream.StreamConfig as bindConsumer (direct = TRUE) and the API's
\* controllers.NewSms (no AllowDirect) write it
StreamConfig(name, direct) ==
    [Name |-> name, Subjects |-> StreamSubjects(name),
     Retention |-> "WorkQueuePolicy", Storage |-> "FileStorage", AllowDirect |-> direct]

\* nats.StreamConsumersConfig: a stream and the durable consumers under it
StreamConsumersConfig(name, consumers) ==
    [Stream |-> StreamConfig(name, TRUE), Consumers |-> consumers]

normalSms == StreamConsumersConfig(NORMAL_SMS_CONSUMER_NAME, <<NORMAL_SMS_CONSUMER_NAME>>)
expressSms == StreamConsumersConfig(EXPRESS_SMS_CONSUMER_NAME, <<EXPRESS_SMS_CONSUMER_NAME>>)

\* the broker has no stream of that name
NoStream == [Name |-> ""]

\* the map has no entry for that name
NoHandle == ""

\* a broker that only creates: a stream that exists is an error
CreateStreamOnly(streams, cfg, ok) ==
    IF ~ok \/ streams[cfg.Name] # NoStream
    THEN [err |-> TRUE, streams |-> streams, jss |-> NoHandle]
    ELSE [err |-> FALSE, streams |-> [streams EXCEPT ![cfg.Name] = cfg], jss |-> cfg.Name]

\* JetStream.CreateOrUpdateStream (ok: the broker answered): the stream has
\* the given config afterwards; jss is the handle, which refers to the stream
\* by its name
CreateOrUpdateStream(streams, cfg, ok) ==
    IF ~ok
    THEN [err |-> TRUE, streams |-> streams, jss |-> NoHandle]
    ELSE [err |-> FALSE, streams |-> [streams EXCEPT ![cfg.Name] = cfg], jss |-> cfg.Name]

\* Base.BindStreams from the i-th config on; the failAt-th round trip fails.
\* j: [streams: the broker's, Streams: the map of the Base]
RECURSIVE BindStreamsFrom(_, _, _, _)
BindStreamsFrom(j, configs, i, failAt) ==
    IF i > Len(configs) THEN [err |-> FALSE, streams |-> j.streams, Streams |-> j.Streams]
    ELSE LET str == configs[i]
             r == CreateOrUpdateStream(j.streams, str, i # failAt)
         IN  IF r.err
             THEN [err |-> TRUE, streams |-> j.streams, Streams |-> j.Streams]
             ELSE BindStreamsFrom([streams |-> r.streams,
                                   Streams |-> [j.Streams EXCEPT ![str.Name] = r.jss]],
                                  configs, i + 1, failAt)

BindStreams(j, configs, failAt) == BindStreamsFrom(j, configs, 1, failAt)

\* StreamConsumers.AddConsumer: the sync.OnceFunc is made anew in every call,
\* so the slice is made anew in every call, and then appended to
AddConsumer(Consumers, consumer) == Append(<<>>, consumer)

\* the inner loop of Consumer.BindConsumers over conf.Consumers, from the
\* k-th on; c: the Consumer object and the broker, failAt as above
RECURSIVE BindConsumersOf(_, _, _, _)
BindConsumersOf(c, conf, k, failAt) ==
    IF k > Len(conf.Consumers) THEN [c EXCEPT !.err = FALSE]
    ELSE IF k = failAt THEN [c EXCEPT !.err = TRUE]
    ELSE LET strName == conf.Stream.Name
             cons == conf.Consumers[k]
         IN  BindConsumersOf(
                 [c EXCEPT !.durables = @ \cup {<<strName, cons>>},
                           !.Consumers[strName] = AddConsumer(@, cons)],
                 conf, k + 1, failAt)

\* Consumer.BindConsumers from the i-th config on; fail = <<i, k>>: in config
\* i, BindStreams (k = 0) or the creation of its k-th consumer fails
RECURSIVE BindConsumersFrom(_, _, _, _)
BindConsumersFrom(c, streams, i, fail) ==
    IF i > Len(streams) THEN [c EXCEPT !.err = FALSE]
    ELSE LET conf == streams[i]
             b == BindStreams([streams |-> c.streams, Streams |-> c.Streams],
                              <<conf.Stream>>, IF fail = <<i, 0>> THEN 1 ELSE 0)
         IN  IF b.err THEN [c EXCEPT !.err = TRUE]
             ELSE LET d == BindConsumersOf(
                               [c EXCEPT !.streams = b.streams, !.Streams = b.Streams],
                               conf, 1, IF fail[1] = i THEN fail[2] ELSE 0)
                  IN  IF d.err THEN d
                      ELSE BindConsumersFrom(d, streams, i + 1, fail)

BindConsumers(c, streams, fail) == BindConsumersFrom(c, streams, 1, fail)

\* the consumers of the map c.Consumers in the order the two loops of
\* StartConsumers visit them, the streams taken in the order names
RECURSIVE Visited(_, _)
Visited(Consumers, names) ==
    IF names = <<>> THEN <<>>
    ELSE [k \in 1..Len(Consumers[names[1]]) |-> <<names[1], Consumers[names[1]][k]>>]
             \o Visited(Consumers, Tail(names))

\* Consumer.StartConsumers: one Consume call per consumer in the map, each
\* starting a delivery loop of its own; the failAt-th call fails
StartConsumers(c, names, failAt) ==
    LET all == Visited(c.Consumers, names)
    IN  IF failAt \in 1..Len(all)
        THEN [c EXCEPT !.ctxs = @ \o SubSeq(all, 1, failAt - 1), !.err = TRUE]
        ELSE [c EXCEPT !.ctxs = @ \o all, !.err = FALSE]

StreamOrders ==
    { <<NORMAL_SMS_CONSUMER_NAME, EXPRESS_SMS_CONSUMER_NAME>>,
      <<EXPRESS_SMS_CONSUMER_NAME, NORMAL_SMS_CONSUMER_NAME>> }

\* nats.NewConsumer / nats.NewSimplePublisher: empty maps, no consume context
NewConsumer ==
    [Streams |-> [n \in Streams |-> NoHandle], Consumers |-> [n \in Streams |-> <<>>],
     ctxs |-> <<>>]

\* a process as its command starts it: phase says where RunE is
NewProcess == [obj |-> NewConsumer, phase |-> "running"]

Workers == {1, 2}

\* process 0 is the API, whose Publisher binds the streams too
Api == 0

Procs == {Api} \cup Workers

\* the last call made on a Base or Consumer: who, what, the arguments, which
\* round trip failed (0 = none) and whether the call returned an error
NoCallYet == [w |-> Api, name |-> "", args |-> <<>>, failAt |-> <<0, 0>>, err |-> FALSE]

\* no process has called anything yet; calls counts the calls made, prev is
\* the call before the last
Fresh ==
    [streams |-> [n \in Streams |-> NoStream], durables |-> {},
     proc |-> [w \in Procs |-> NewProcess], last |-> NoCallYet, prev |-> NoCallYet,
     calls |-> 0]

\* the view a call of process w works on, and putting its result back
ViewOf(j, w) ==
    [streams |-> j.streams, durables |-> j.durables, Streams |-> j.proc[w].obj.Streams,
     Consumers |-> j.proc[w].obj.Consumers, ctxs |-> j.proc[w].obj.ctxs, err |-> FALSE]

PutBack(j, c, call) ==
    [j EXCEPT !.streams = c.streams, !.durables = c.durables,
              !.proc[call.w].obj = [Streams |-> c.Streams, Consumers |-> c.Consumers,
                                    ctxs |-> c.ctxs],
              !.last = [call EXCEPT !.err = c.err], !.prev = j.last]

CallOf(w, name, args, failAt) ==
    [w |-> w, name |-> name, args |-> args, failAt |-> failAt, err |-> FALSE]

\* js after process w called BindStreams / BindConsumers / StartConsumers
AfterBindStreams(j, w, configs, failAt) ==
    LET v == ViewOf(j, w)
        b == BindStreams([streams |-> v.streams, Streams |-> v.Streams], configs, failAt)
    IN  PutBack(j, [v EXCEPT !.streams = b.streams, !.Streams = b.Streams, !.err = b.err],
                CallOf(w, "BindStreams", configs, <<failAt, 0>>))

AfterBindConsumers(j, w, streams, fail) ==
    PutBack(j, BindConsumers(ViewOf(j, w), streams, fail),
            CallOf(w, "BindConsumers", streams, fail))

AfterStartConsumers(j, w, names, failAt) ==
    PutBack(j, StartConsumers(ViewOf(j, w), names, failAt),
            CallOf(w, "StartConsumers", names, <<failAt, 0>>))

\* controllers.NewSms: the API binds both streams, without AllowDirect
ApiStreams ==
    <<StreamConfig(NORMAL_SMS_CONSUMER_NAME, FALSE), StreamConfig(EXPRESS_SMS_CONSUMER_NAME, FALSE)>>

\* workers.NewSms and Sms.Start of process w, every round trip succeeding
StartedWorker(j, w) ==
    AfterStartConsumers(AfterBindConsumers(j, w, <<normalSms, expressSms>>, <<0, 0>>), w,
                        <<NORMAL_SMS_CONSUMER_NAME, EXPRESS_SMS_CONSUMER_NAME>>, 0)

\* the API and both worker processes are up, the workers consuming; the
\* record of calls starts empty
Started ==
    [StartedWorker(StartedWorker(AfterBindStreams(Fresh, Api, ApiStreams, 0), 1), 2)
        EXCEPT !.last = NoCallYet, !.prev = NoCallYet]

----------------------------------------------------------------------------
(* State shapes *)

ReqIds == {1}

\* no balance has been read (no Numeric has exponent 1 here)
NoRead == [Int |-> 0, Exp |-> 1]

FreeReq == [pc |-> "free", express |-> FALSE, body |-> Body(FALSE, 0, 0, ""),
            subject |-> <<>>, read |-> NoRead, status |-> 0, pubs |-> 0, seq |-> 0]

Handlers == Workers \X Streams

\* armed: when t.Reset was called; begun: when the transaction began
IdleHandler == [pc |-> "idle", msg |-> 0, inserted |-> FALSE, debited |-> FALSE,
                armed |-> 0, begun |-> 0]

\* user 1 starts below or at the cost of one message, user 2 well above
InitBalances == { (1 :> 100) @@ (2 :> 1000), (1 :> 500) @@ (2 :> 1000) }

CostReps == NumericReps(500)

\* no call of Filter under observation
NoFilter == [sub |-> <<>>, pat |-> <<>>, done |-> FALSE, res |-> FALSE]

Init ==
    /\ cost \in CostReps
    /\ balance \in InitBalances
    /\ lock = [u \in Users |-> None]
    /\ sms = <<>>
    /\ msgs = <<>>
    /\ hs = [h \in Handlers |-> IdleHandler]
    /\ reqs = [r \in ReqIds |-> FreeReq]
    /\ debits = [m \in 1..MaxMsgs |-> 0]
    /\ credits = 0
    /\ filt = NoFilter
    /\ now = 0
    /\ js = Started
    /\ nd = [m \in 1..MaxMsgs |-> 0]

----------------------------------------------------------------------------
(* Broker *)

\* JetStream.Publish stored the message: it gets the next stream sequence
Stored(subject, data) ==
    Append(msgs, [subject |-> subject, data |-> data, st |-> "ready"])

SetSt(m, st) == [msgs EXCEPT ![m].st = st]

----------------------------------------------------------------------------
(* Ingress API: controllers.Sms.SendSms *)

\* the subject choice, made from the query struct as it is at that line
ChooseSubject(query) ==
    IF query.Express THEN MakeSubject(<<SMS, EX, SEND, REQ>>)
    ELSE MakeSubject(<<SMS, SEND, REQ>>)

\* comparing the mantissas alone: balance.Int.Cmp(cost.Int) < 0
NotEnoughBalanceInt(bal, c) == bal.Int < c.Int

\* rejecting a balance that equals the cost
NotEnoughBalanceLeq(bal, c) == Hundredths(bal) <= Hundredths(c)

\* setting aside the cost of every request of the stream not yet dispatched
NotEnoughBalanceReserving(bal, c) ==
    Float64Value(bal) <
        Float64Value(c) * (1 + Cardinality({ m \in 1..Len(msgs) : msgs[m].st = "ready" }))

\* balanceFloat.Float64 < costFloat.Float64
NotEnoughBalance(bal, c) == Float64Value(bal) < Float64Value(c)

\* binding without the "required" tags: only a body that does not parse fails
BindJSONNoRequired(body) == [err |-> ~body.ok]

\* ctx.BindJSON(&req): the body parses and every field tagged
\* binding:"required" has a value other than the zero value
BindJSON(body) ==
    [err |-> \/ ~body.ok
             \/ body.UserID = 0
             \/ body.PhoneNumberID = 0
             \/ body.ToPhoneNumber = ""
             \/ body.Message = ""]

\* a user without a row reads as balance zero
GetBalanceZeroWhenNoRow(user_id, dbOk) ==
    IF ~dbOk THEN [err |-> TRUE, balance |-> 0]
    ELSE [err |-> FALSE, balance |-> IF user_id \in Users THEN balance[user_id] ELSE 0]

\* q.GetBalance: SELECT balance FROM users WHERE id = $1, one row expected
\* (dbOk: the store answered)
GetBalance(user_id, dbOk) ==
    IF ~dbOk \/ user_id \notin Users THEN [err |-> TRUE, balance |-> 0]
    ELSE [err |-> FALSE, balance |-> balance[user_id]]

\* SendSms up to the admission check: the request is answered 400, 500 or
\* 403, or goes on to publish
SendSms(r, express, body, dbOk) ==
    /\ reqs[r].pc \in {"free", "done"}     \* the task serves its next request
    /\ LET query0 == [Express |-> FALSE]            \* new(struct{Express bool})
           subject == ChooseSubject(query0)         \* chosen before BindQuery
           base == [FreeReq EXCEPT !.express = express, !.body = body,
                                   !.subject = subject]
           answer(st) == [base EXCEPT !.pc = "done", !.status = st]
           got0 == GetBalance(body.UserID, dbOk)
       IN  IF BindJSON(body).err
           THEN reqs' = [reqs EXCEPT ![r] = answer(400)]
           ELSE IF got0.err
           THEN reqs' = [reqs EXCEPT ![r] = answer(500)]
           ELSE \E bal \in NumericReps(got0.balance) :
                  LET got == [base EXCEPT !.read = bal]
                  IN  IF NotEnoughBalance(bal, cost)
                      THEN reqs' = [reqs EXCEPT ![r] =
                                      [got EXCEPT !.pc = "done", !.status = 403]]
                      ELSE reqs' = [reqs EXCEPT ![r] = [got EXCEPT !.pc = "publish"]]
    /\ UNCHANGED <<js, nd, cost, filt, now, balance, lock, sms, msgs, hs, debits, credits>>

\* answering 200 whatever Publish returned
PublishStatusIgnoringErr(pubOk) == 200

\* if err != nil { AbortWithError(500) }; ctx.JSON(200, ...)
PublishStatus(pubOk) == IF pubOk THEN 200 ELSE 500

\* charging the sender in the API
ApiStoreWritesDebit(u) == balance' = [balance EXCEPT ![u] = @ - Hundredths(cost)]

\* the store calls SendSms makes after GetBalance: none
ApiStoreWrites(u) == UNCHANGED balance

\* SendSms from json.Marshal to the response
SendSmsPublish(r, pubOk) ==
    /\ reqs[r].pc = "publish"
    /\ LET req == reqs[r]
           smsJson == Marshal(Envelope(req.body))
       IN  IF pubOk
           THEN /\ Len(msgs) < MaxMsgs
                /\ msgs' = Stored(req.subject, smsJson)
                /\ reqs' = [reqs EXCEPT ![r] = [req EXCEPT !.pc = "done",
                                                  !.status = PublishStatus(pubOk),
                                                  !.pubs = req.pubs + 1, !.seq = Len(msgs')]]
           ELSE /\ reqs' = [reqs EXCEPT ![r] = [req EXCEPT !.pc = "done",
                                                  !.status = PublishStatus(pubOk)]]
                /\ UNCHANGED msgs
    /\ ApiStoreWrites(reqs[r].body.UserID)
    /\ UNCHANGED <<js, nd, cost, filt, now, lock, sms, hs, debits, credits>>

\* a publisher other than the API (the integration tests publish directly),
\* while the stream holds fewer than n messages
PublishUpTo(n, subject, data) ==
    /\ Len(msgs) < n
    /\ msgs' = Stored(subject, data)
    /\ UNCHANGED <<js, nd, cost, filt, now, balance, lock, sms, hs, reqs, debits, credits>>

ForeignPublish(subject, data) == PublishUpTo(MaxMsgs, subject, data)

\* PUT /user/balance: UPDATE users SET balance = balance + $1
AddBalance(u, amount) ==
    /\ credits < MaxCredits
    /\ lock[u] = None
    /\ balance' = [balance EXCEPT ![u] = @ + amount]
    /\ credits' = credits + 1
    /\ UNCHANGED <<js, nd, cost, filt, now, lock, sms, msgs, hs, reqs, debits>>

----------------------------------------------------------------------------
(* Per-message capabilities of the broker *)

Pending(m) == msgs[m].st \in {"ready", "delayed", "inflight"}

\* a successful (double-)ack removes the message from the work queue
Acked(m) == IF Pending(m) THEN SetSt(m, "acked") ELSE msgs

\* giving a message up once it has been delivered twice
NakkedUpToTwoDeliveries(m) ==
    IF nd[m] >= 2 /\ msgs[m].st \in {"ready", "delayed", "inflight"} THEN SetSt(m, "termed")
    ELSE IF msgs[m].st = "inflight" THEN SetSt(m, "delayed") ELSE msgs

\* NakWithDelay: the message is held back and redelivered after the delay
Nakked(m) == IF msgs[m].st = "inflight" THEN SetSt(m, "delayed") ELSE msgs

\* TermWithReason: the message is removed and never redelivered
Termed(m) == IF Pending(m) THEN SetSt(m, "termed") ELSE msgs

\* the consumer's AckWait ran out for a delivered, unacknowledged message
AckWaitExpire(m) ==
    /\ m \in 1..Len(msgs)
    /\ msgs[m].st = "inflight"
    /\ msgs' = SetSt(m, "ready")
    /\ UNCHANGED <<js, nd, cost, filt, now, balance, lock, sms, hs, reqs, debits, credits>>

\* the delay of a negative acknowledgement has passed
NakDelayElapsed(m) ==
    /\ m \in 1..Len(msgs)
    /\ msgs[m].st = "delayed"
    /\ msgs' = SetSt(m, "ready")
    /\ UNCHANGED <<js, nd, cost, filt, now, balance, lock, sms, hs, reqs, debits, credits>>

\* what the broker does on its own, for the first n messages
BrokerStepUpTo(n) ==
    \/ \E m \in 1..n : AckWaitExpire(m)
    \/ \E m \in 1..n : NakDelayElapsed(m)

BrokerStep == BrokerStepUpTo(MaxMsgs)

----------------------------------------------------------------------------
(* Dispatch worker *)

\* matching the express subjects with a pattern of three tokens
RouteExpressThreeTokens(sub) ==
    IF Filter(sub, <<SMS, SEND, ANY>>) THEN "normal"
    ELSE IF Filter(sub, <<SMS, EX, ANY>>) THEN "express"
    ELSE "none"

\* Sms.handler: which sub-handler a subject goes to
Route(sub) ==
    IF Filter(sub, <<SMS, SEND, ANY>>) THEN "normal"
    ELSE IF Filter(sub, <<SMS, EX, ANY, ANY>>) THEN "express"
    ELSE "none"

\* the express sub-handler with the three-token patterns of the normal one
BranchThreeTokens(sub) ==
    LET r == Route(sub)
    IN  IF r \in {"normal", "express"}
        THEN IF Filter(sub, <<ANY, ANY, REQ>>) THEN "request"
             ELSE IF Filter(sub, <<ANY, ANY, STAT>>) THEN "status"
             ELSE "none"
        ELSE "none"

\* the switch inside handleNormalSms / handleExpressSms
Branch(sub) ==
    LET r == Route(sub)
    IN  IF r = "normal"
        THEN IF Filter(sub, <<ANY, ANY, REQ>>) THEN "request"
             ELSE IF Filter(sub, <<ANY, ANY, STAT>>) THEN "status"
             ELSE "none"
        ELSE IF r = "express"
        THEN IF Filter(sub, <<ANY, ANY, ANY, REQ>>) THEN "request"
             ELSE IF Filter(sub, <<ANY, ANY, ANY, STAT>>) THEN "status"
             ELSE "none"
        ELSE "none"

\* the outcome of the two switches for each subject a stream stores
Branches == [sub \in Subjects |-> Branch(sub)]

\* the calls a handler makes on the message it was handed
TermWithReason == [call |-> "term", delay |-> 0]
NakWithDelay(d) == [call |-> "nak", delay |-> d]
DoubleAckCall == [call |-> "ack", delay |-> 0]
NoCall == [call |-> "none", delay |-> 0]

\* time.Second, in milliseconds
Second == 1000

\* asking for redelivery of a payload that does not decode
OnDeliveryNakUndecodable(sub, data, ok) ==
    LET b == Branches[sub]
    IN
    IF b = "request"
    THEN IF Unmarshal(data).err \/ ~ok THEN NakWithDelay(Second) ELSE NoCall
    ELSE IF b = "status" THEN DoubleAckCall
    ELSE NoCall

\* dropping the message when the transaction cannot be begun
OnDeliveryTermNoTx(sub, data, ok) ==
    LET b == Branches[sub]
    IN
    IF b = "request"
    THEN IF Unmarshal(data).err \/ ~ok THEN TermWithReason ELSE NoCall
    ELSE IF b = "status" THEN DoubleAckCall
    ELSE NoCall

\* the call the handler makes before its first store round trip returns
\* (ok: db.Begin succeeded)
OnDelivery(sub, data, ok) ==
    LET b == Branches[sub]
    IN
    IF b = "request"
    THEN IF Unmarshal(data).err THEN TermWithReason
         ELSE IF ~ok THEN NakWithDelay(Second)
         ELSE NoCall                    \* goes on to q.AddSms
    ELSE IF b = "status" THEN DoubleAckCall
    ELSE NoCall                         \* no case of the switch matches

\* what the broker makes of call c on message m of q (ackOk: an ack reached it)
Answered(q, m, c, ackOk) ==
    CASE c.call = "term" -> [q EXCEPT ![m].st = "termed"]
      [] c.call = "nak" -> [q EXCEPT ![m].st = "delayed"]
      [] c.call = "ack" -> IF ackOk THEN [q EXCEPT ![m].st = "acked"] ELSE q
      [] OTHER -> q

PayloadOf(h) == Unmarshal(msgs[hs[h].msg].data).sms

\* a transaction that ends without giving up its row lock
UnlockedNever(h) == lock

\* tx.Rollback: the open transaction's row lock is released
Unlocked(h) == [u \in Users |-> IF lock[u] = h THEN None ELSE lock[u]]

\* the handler returns: the deferred Rollback runs, the task takes the next message
Return(h) ==
    /\ hs' = [hs EXCEPT ![h] = IdleHandler]
    /\ lock' = Unlocked(h)

\* process w runs and has a consume context for the consumer of that stream
Consuming(w, stream) ==
    /\ js.proc[w].phase # "exited"
    /\ \E k \in 1..Len(js.proc[w].obj.ctxs) : js.proc[w].obj.ctxs[k] = <<stream, stream>>

\* one delivery loop for all consumers of a process: a message is handed over
\* only when no handler of the process is at work
PollingOneLoop(h) ==
    /\ Consuming(h[1], h[2])
    /\ \A g \in Handlers : g[1] = h[1] => hs[g].pc = "idle"

\* the delivery loop of handler h's consumer can hand it a message: each
\* Consume call has a loop of its own, which calls the handler for one message
\* at a time
Polling(h) ==
    /\ Consuming(h[1], h[2])
    /\ hs[h].pc = "idle"

\* the consumer hands message m to the handler; the handler runs up to its
\* first round trip (db.Begin, or DoubleAck of a status message), whose
\* outcome is ok
Handle(h, m, ok) ==
    /\ Polling(h)
    /\ m \in 1..Len(msgs)
    /\ msgs[m].st = "ready"
    /\ StreamOf(msgs[m].subject) = h[2]
    /\ LET sub == msgs[m].subject
           delivered == SetSt(m, "inflight")
           c == OnDelivery(sub, msgs[m].data, ok)
       IN  /\ msgs' = Answered(delivered, m, c, ok)
           /\ IF Branches[sub] = "request" /\ c = NoCall
              THEN hs' = [hs EXCEPT ![h] = [IdleHandler EXCEPT !.pc = "addsms", !.msg = m,
                                                               !.armed = now, !.begun = now]]
              ELSE UNCHANGED hs                \* the handler has returned
    /\ UNCHANGED <<js, cost, filt, now, balance, lock, sms, reqs, debits, credits>>

\* the foreign keys of table sms
ForeignKeysHold(s) == s.user_id \in Users /\ s.phone_number_id \in DOMAIN PhoneOwner

\* q.AddSms inside the transaction
AddSms(h, dbOk) ==
    /\ hs[h].pc = "addsms"
    /\ IF dbOk /\ ForeignKeysHold(PayloadOf(h))
       THEN /\ hs' = [hs EXCEPT ![h].pc = "subbalance", ![h].inserted = TRUE]
            /\ UNCHANGED <<msgs, lock>>
       ELSE /\ msgs' = Nakked(hs[h].msg)
            /\ Return(h)
    /\ UNCHANGED <<js, nd, cost, filt, now, balance, sms, reqs, debits, credits>>

\* q.SubBalance inside the transaction: the UPDATE takes the user's row lock
SubBalance(h, dbOk) ==
    /\ hs[h].pc = "subbalance"
    /\ IF dbOk
       THEN /\ lock[PayloadOf(h).user_id] = None
            /\ lock' = [lock EXCEPT ![PayloadOf(h).user_id] = h]
            /\ hs' = [hs EXCEPT ![h].pc = "doubleack", ![h].debited = TRUE]
            /\ UNCHANGED msgs
       ELSE /\ msgs' = Nakked(hs[h].msg)
            /\ Return(h)
    /\ UNCHANGED <<js, nd, cost, filt, now, balance, sms, reqs, debits, credits>>

\* going on to tx.Commit whatever DoubleAck returned
AfterDoubleAckIgnoringErr(err) == "commit"

\* waiting on the timer between DoubleAck and tx.Commit
AfterDoubleAckWaitingFirst(err) == IF err THEN "return" ELSE "wait"

\* waiting on the timer when DoubleAck fails
AfterDoubleAckWaiting(err) == IF err THEN "wait" ELSE "commit"

\* if err != nil { return }; tx.Commit(...)
AfterDoubleAck(err) == IF err THEN "return" ELSE "commit"

\* msg.DoubleAck, called with the transaction still open
DoubleAck(h, ackOk) ==
    /\ hs[h].pc = "doubleack"
    /\ msgs' = IF ackOk THEN Acked(hs[h].msg) ELSE msgs
    /\ LET next == AfterDoubleAck(~ackOk)
       IN  IF next = "return"
           THEN Return(h)
           ELSE /\ hs' = [hs EXCEPT ![h].pc = next]
                /\ UNCHANGED lock
    /\ UNCHANGED <<js, nd, cost, filt, now, balance, sms, reqs, debits, credits>>

\* the row a committed transaction adds (from: the message it came from)
Row(h) == [user_id |-> PayloadOf(h).user_id,
           phone_number_id |-> PayloadOf(h).phone_number_id,
           to_phone_number |-> PayloadOf(h).to_phone_number,
           status |-> PayloadOf(h).status,
           message |-> PayloadOf(h).message,
           delivered_at |-> hs[h].begun,     \* DEFAULT CURRENT_TIMESTAMP
           from |-> hs[h].msg]

\* an UPDATE without its WHERE clause
SubBalanceEveryRow(bal, amount, user_id) == [u \in DOMAIN bal |-> bal[u] - amount]

\* a debit that stops at zero
SubBalanceRowFloored(bal, amount, user_id) ==
    [bal EXCEPT ![user_id] = IF @ >= amount THEN @ - amount ELSE 0]

\* UPDATE users SET balance = balance - @amount WHERE id = @user_id
SubBalanceRow(bal, amount, user_id) == [bal EXCEPT ![user_id] = @ - amount]

\* running the transaction again when Commit fails
AfterCommitRetrying(err) == IF err THEN "addsms" ELSE "wait"

\* tx.Commit(context.Background()) as a statement: what it returns is dropped
\* and <-t.C follows
AfterCommit(err) == "wait"

\* tx.Commit, its error ignored; then the handler waits on the timer
Commit(h, dbOk) ==
    /\ hs[h].pc = "commit"
    /\ IF dbOk
       THEN /\ sms' = Append(sms, Row(h))
            /\ balance' = SubBalanceRow(balance, Hundredths(cost), PayloadOf(h).user_id)
            /\ debits' = [debits EXCEPT ![hs[h].msg] = @ + 1]
       ELSE UNCHANGED <<sms, balance, debits>>
    /\ lock' = Unlocked(h)
    /\ hs' = [hs EXCEPT ![h] = [IdleHandler EXCEPT !.pc = AfterCommit(~dbOk), !.msg = hs[h].msg,
                                                   !.armed = hs[h].armed]]
    /\ UNCHANGED <<js, nd, cost, filt, now, msgs, reqs, credits>>

\* <-t.C: the rate-limit timer fires and the handler returns
TimerWait(h) ==
    /\ hs[h].pc = "wait"
    /\ hs' = [hs EXCEPT ![h] = IdleHandler]
    /\ UNCHANGED <<js, nd, cost, filt, now, balance, lock, sms, msgs, reqs, debits, credits>>

\* The handler with the clock running: entering it (the timer is armed) and
\* beginning the transaction are two moments.

\* viper.GetUint("sms.normal.ratelimit") / ("sms.express.ratelimit")
RateLimit(stream) ==
    IF stream = NORMAL_SMS_CONSUMER_NAME THEN NormalRate ELSE ExpressRate

\* the consumer hands message m to the handler, which arms its timer
Enter(h, m) ==
    /\ Polling(h)
    /\ m \in 1..Len(msgs)
    /\ msgs[m].st = "ready"
    /\ StreamOf(msgs[m].subject) = h[2]
    /\ msgs' = SetSt(m, "inflight")
    /\ hs' = [hs EXCEPT ![h] = [IdleHandler EXCEPT !.pc = "entered", !.msg = m,
                                                   !.armed = now]]
    /\ UNCHANGED <<js, cost, filt, now, balance, lock, sms, reqs, debits, credits>>

\* the switch up to the return of db.Begin (ok: Begin succeeded)
Begin(h, ok) ==
    /\ hs[h].pc = "entered"
    /\ LET m == hs[h].msg
           sub == msgs[m].subject
           c == OnDelivery(sub, msgs[m].data, ok)
       IN  /\ msgs' = Answered(msgs, m, c, ok)
           /\ IF Branches[sub] = "request" /\ c = NoCall
              THEN hs' = [hs EXCEPT ![h].pc = "addsms", ![h].begun = now]
              ELSE hs' = [hs EXCEPT ![h] = IdleHandler]
    /\ UNCHANGED <<js, nd, cost, filt, now, balance, lock, sms, reqs, debits, credits>>

\* a timer that has fired whenever it is waited on
TimerFiresAtOnce(h) == TimerWait(h)

\* <-t.C with the clock running: the timer fires RateLimit after it was armed
TimerFires(h) ==
    /\ now >= hs[h].armed + RateLimit(h[2])
    /\ TimerWait(h)

\* the clock advances
Tick ==
    /\ now < MaxTime
    /\ now' = now + 1
    /\ UNCHANGED <<js, nd, cost, filt, balance, lock, sms, msgs, hs, reqs, debits, credits>>

\* the worker process w dies: its open transactions are rolled back by the
\* server, nothing is acknowledged, and the restarted process starts idle
Crash(w) ==
    /\ \E h \in Handlers : h[1] = w /\ hs[h].pc # "idle"
    /\ hs' = [h \in Handlers |-> IF h[1] = w THEN IdleHandler ELSE hs[h]]
    /\ lock' = [u \in Users |-> IF lock[u] # None /\ lock[u][1] = w THEN None ELSE lock[u]]
    /\ UNCHANGED <<js, nd, cost, filt, now, balance, sms, msgs, reqs, debits, credits>>

----------------------------------------------------------------------------
(* Setting up and shutting down a worker process *)

\* everything but js
others == <<cost, balance, lock, sms, msgs, hs, reqs, debits, credits, filt, now, nd>>

\* process w calls BindStreams(configs...)
BindStreamsCall(w, configs, failAt) ==
    /\ js.proc[w].phase = "running"
    /\ js.calls < MaxCalls
    /\ js' = [AfterBindStreams(js, w, configs, failAt) EXCEPT !.calls = @ + 1]
    /\ UNCHANGED others

\* worker process w calls BindConsumers(streams...)
BindConsumersCall(w, streams, fail) ==
    /\ js.proc[w].phase = "running"
    /\ js.calls < MaxCalls
    /\ js' = [AfterBindConsumers(js, w, streams, fail) EXCEPT !.calls = @ + 1]
    /\ UNCHANGED others

\* worker process w calls StartConsumers; names: the order in which the range
\* over the map c.Consumers visits the streams
StartConsumersCall(w, names, failAt) ==
    /\ js.proc[w].phase = "running"
    /\ js.calls < MaxCalls
    /\ js' = [AfterStartConsumers(js, w, names, failAt) EXCEPT !.calls = @ + 1]
    /\ UNCHANGED others

\* os.Interrupt reaches worker process w: the context of signal.NotifyContext
\* is done and RunE, waiting on it, is about to return
Signal(w) ==
    /\ js.proc[w].phase = "running"
    /\ js' = [js EXCEPT !.proc[w].phase = "signalled"]
    /\ UNCHANGED others

\* RunE has returned and the process ends: what its handlers were doing stops
\* there, and the server rolls back the transactions its connections had open
Exit(w) ==
    /\ js.proc[w].phase = "signalled"
    /\ js' = [js EXCEPT !.proc[w].phase = "exited"]
    /\ hs' = [h \in Handlers |-> IF h[1] = w THEN IdleHandler ELSE hs[h]]
    /\ lock' = [u \in Users |-> IF lock[u] # None /\ lock[u][1] = w THEN None ELSE lock[u]]
    /\ UNCHANGED <<nd, cost, filt, now, balance, sms, msgs, reqs, debits, credits>>

----------------------------------------------------------------------------

\* One worker process runs in Spec and SpecApi; the second replica's
\* handlers exist and stay idle there.
Replica1 == { h \in Handlers : h[1] = 1 }

NormalHandler == <<1, NORMAL_SMS_CONSUMER_NAME>>
ExpressHandler == <<1, EXPRESS_SMS_CONSUMER_NAME>>

ApiStepOf(B) ==
    \/ \E r \in ReqIds, express \in BOOLEAN, body \in B, dbOk \in BOOLEAN :
           SendSms(r, express, body, dbOk)
    \/ \E r \in ReqIds, pubOk \in BOOLEAN : SendSmsPublish(r, pubOk)

ApiStep == ApiStepOf(Bodies)

\* the handler's steps after it was handed a message
HandlerStep(H) ==
    \/ \E h \in H, dbOk \in BOOLEAN : AddSms(h, dbOk)
    \/ \E h \in H, dbOk \in BOOLEAN : SubBalance(h, dbOk)
    \/ \E h \in H, ackOk \in BOOLEAN : DoubleAck(h, ackOk)
    \/ \E h \in H, dbOk \in BOOLEAN : Commit(h, dbOk)
    \/ \E h \in H : TimerWait(h)

WorkerStep(H) ==
    \/ \E h \in H, m \in 1..MaxMsgs, ok \in BOOLEAN : Handle(h, m, ok) /\ UNCHANGED nd
    \/ HandlerStep(H)

Next ==
    \/ ApiStep
    \/ \E f \in ForeignMessages : ForeignPublish(f[1], f[2])
    \/ \E u \in Users : AddBalance(u, 500)
    \/ BrokerStep
    \/ WorkerStep(Replica1)
    \/ \E h \in Replica1 : Crash(h[1])

Spec == Init /\ [][Next]_vars

\* the users the request bodies name
Senders == { b.UserID : b \in Bodies } \cap Users

\* The API against the store and the normal stream: requests, credits and
\* the normal handler of one worker, with every failure of store and broker.
NextApi ==
    \/ ApiStep
    \/ \E u \in Senders : AddBalance(u, 500)
    \/ BrokerStep
    \/ WorkerStep({<<1, NORMAL_SMS_CONSUMER_NAME>>})

SpecApi == Init /\ [][NextApi]_vars

\* One worker process against broker and store, fed by direct publishes.
NextWorker ==
    \/ \E f \in WorkerMessages : ForeignPublish(f[1], f[2])
    \/ BrokerStep
    \/ WorkerStep(Replica1)

SpecWorker == Init /\ [][NextWorker]_vars

\* Two worker replicas on the durable consumer of the normal stream.
NormalHandlers == { h \in Handlers : h[2] = NORMAL_SMS_CONSUMER_NAME }

NormalMessages == { f \in WorkerMessages : StreamOf(f[1]) = NORMAL_SMS_CONSUMER_NAME }

NextReplicas ==
    \/ \E f \in NormalMessages : ForeignPublish(f[1], f[2])
    \/ BrokerStep
    \/ WorkerStep(NormalHandlers)

SpecReplicas == Init /\ [][NextReplicas]_vars

\* Subject.Filter on its own: every subject and pattern within the bounds.
Alphabet == {Dot, "a", "*"}

RECURSIVE SeqsUpTo(_, _)
SeqsUpTo(S, n) ==
    IF n = 0 THEN { <<>> }
    ELSE LET shorter == SeqsUpTo(S, n - 1)
         IN  shorter \cup { Append(q, x) : q \in shorter, x \in S }

FilterSubjects == SeqsUpTo(Alphabet, MaxStr)

PatternTokens == { ANY, <<"a">>, <<>>, <<"a", "a">>, <<"a", Dot, "a">> }

FilterPatterns == SeqsUpTo(PatternTokens, MaxPat)

InitFilter ==
    /\ cost = [Int |-> 5, Exp |-> 0]
    /\ balance = [u \in Users |-> 0]
    /\ lock = [u \in Users |-> None]
    /\ sms = <<>>
    /\ msgs = <<>>
    /\ hs = [h \in Handlers |-> IdleHandler]
    /\ reqs = [r \in ReqIds |-> FreeReq]
    /\ debits = [m \in 1..MaxMsgs |-> 0]
    /\ credits = 0
    /\ filt \in { [NoFilter EXCEPT !.sub = S, !.pat = P] :
                     S \in FilterSubjects, P \in FilterPatterns }
    /\ now = 0
    /\ js = Started
    /\ nd = [m \in 1..MaxMsgs |-> 0]

\* the call Subject(filt.sub).Filter(filt.pat...)
CallFilter ==
    /\ ~filt.done
    /\ filt' = [filt EXCEPT !.done = TRUE, !.res = Filter(filt.sub, filt.pat)]
    /\ UNCHANGED <<js, nd, cost, balance, lock, sms, msgs, hs, reqs, debits, credits, now>>

NextFilter == CallFilter

SpecFilter == InitFilter /\ [][NextFilter]_vars

\* One worker process with the clock running and a burst of requests on
\* both streams.
BurstMessages ==
    { <<MakeSubject(<<SMS, SEND, REQ>>), Marshal(Sm(1, 1, "pending"))>>,
      <<MakeSubject(<<SMS, EX, SEND, REQ>>), Marshal(Sm(1, 1, "pending"))>> }

NextTimed ==
    \/ \E f \in BurstMessages : ForeignPublish(f[1], f[2])
    \/ BrokerStep
    \/ \E h \in Replica1, m \in 1..MaxMsgs : Enter(h, m) /\ UNCHANGED nd
    \/ \E h \in Replica1, ok \in BOOLEAN : Begin(h, ok)
    \/ \E h \in Replica1, dbOk \in BOOLEAN : AddSms(h, dbOk)
    \/ \E h \in Replica1, dbOk \in BOOLEAN : SubBalance(h, dbOk)
    \/ \E h \in Replica1, ackOk \in BOOLEAN : DoubleAck(h, ackOk)
    \/ \E h \in Replica1, dbOk \in BOOLEAN : Commit(h, dbOk)
    \/ \E h \in Replica1 : TimerFires(h)
    \/ Tick

\* the cost is 5 and user 1 has the balance for one message
InitTimed ==
    /\ Init
    /\ cost.Exp = 0
    /\ balance[1] = 500

SpecTimed == InitTimed /\ [][NextTimed]_vars

\* Binding streams and consumers and starting to consume, from processes
\* that have just been started, with every broker failure.
AUDIT == "SmsAudit"

\* the stream lists handed to BindStreams: the worker's, the API's, one stream
\* alone, one stream twice with two configs
StreamLists ==
    { <<normalSms.Stream, expressSms.Stream>>, ApiStreams, <<normalSms.Stream>>,
      <<ApiStreams[1], normalSms.Stream>> }

\* the lists handed to BindConsumers: bindConsumer's, each stream alone, and a
\* stream with two durable consumers
ConsumerLists ==
    { <<normalSms, expressSms>>, <<normalSms>>, <<expressSms>>,
      <<StreamConsumersConfig(NORMAL_SMS_CONSUMER_NAME, <<NORMAL_SMS_CONSUMER_NAME, AUDIT>>)>>,
      <<StreamConsumersConfig(NORMAL_SMS_CONSUMER_NAME, <<AUDIT>>)>> }

InitSetup ==
    /\ cost = [Int |-> 5, Exp |-> 0]
    /\ balance = [u \in Users |-> 0]
    /\ lock = [u \in Users |-> None]
    /\ sms = <<>>
    /\ msgs = <<>>
    /\ hs = [h \in Handlers |-> IdleHandler]
    /\ reqs = [r \in ReqIds |-> FreeReq]
    /\ debits = [m \in 1..MaxMsgs |-> 0]
    /\ credits = 0
    /\ filt = NoFilter
    /\ now = 0
    /\ js = Fresh
    /\ nd = [m \in 1..MaxMsgs |-> 0]

NextSetup ==
    \/ \E w \in {Api, 1}, configs \in StreamLists, failAt \in 0..2 :
           BindStreamsCall(w, configs, failAt)
    \/ \E streams \in ConsumerLists, fail \in (0..2) \X (0..2) :
           BindConsumersCall(1, streams, fail)
    \/ \E names \in StreamOrders, failAt \in 0..2 : StartConsumersCall(1, names, failAt)

SpecSetup == InitSetup /\ [][NextSetup]_vars

\* One worker process at work when the termination signal arrives.
NextShutdown ==
    \/ \E f \in BurstMessages : ForeignPublish(f[1], f[2])
    \/ BrokerStep
    \/ WorkerStep(Replica1)
    \/ Signal(1)
    \/ Exit(1)

SpecShutdown == Init /\ [][NextShutdown]_vars

\* One worker process with requests of both priorities piling up.
InitPriority ==
    /\ cost \in CostReps
    /\ balance = [u \in Users |-> 1000]
    /\ lock = [u \in Users |-> None]
    /\ sms = <<>>
    /\ msgs = <<>>
    /\ hs = [h \in Handlers |-> IdleHandler]
    /\ reqs = [r \in ReqIds |-> FreeReq]
    /\ debits = [m \in 1..MaxBurst |-> 0]
    /\ credits = 0
    /\ filt = NoFilter
    /\ now = 0
    /\ js = Started
    /\ nd = [m \in 1..MaxBurst |-> 0]

NextPriority ==
    \/ \E f \in BurstMessages : PublishUpTo(MaxBurst, f[1], f[2])
    \/ BrokerStepUpTo(MaxBurst)
    \/ \E h \in Replica1, m \in 1..MaxBurst, ok \in BOOLEAN : Handle(h, m, ok) /\ UNCHANGED nd
    \/ HandlerStep(Replica1)

SpecPriority == InitPriority /\ [][NextPriority]_vars

\* The API alone, over bodies that do not parse or lack a member.
BindBodies ==
    { Body(TRUE, 1, 1, ""),
      Body(FALSE, 1, 1, ""),
      Body(TRUE, 0, 1, ""),
      Body(TRUE, 1, 0, ""),
      [Body(TRUE, 1, 1, "") EXCEPT !.ToPhoneNumber = ""],
      [Body(TRUE, 1, 1, "") EXCEPT !.Message = ""],
      [Body(TRUE, 1, 0, "") EXCEPT !.ToPhoneNumber = "", !.Message = ""],
      Body(TRUE, 0, 0, "pending") }

NextBind ==
    \/ ApiStepOf(BindBodies)
    \/ \E u \in Users : AddBalance(u, 500)

SpecBind == Init /\ [][NextBind]_vars

\* Two requests of user 1 in the API at once, the normal handler dispatching.
TwoReqs == {1, 2}

InitTwoPosts ==
    /\ cost = [Int |-> 5, Exp |-> 0]
    /\ balance \in { (1 :> 500) @@ (2 :> 1000), (1 :> 900) @@ (2 :> 1000) }
    /\ lock = [u \in Users |-> None]
    /\ sms = <<>>
    /\ msgs = <<>>
    /\ hs = [h \in Handlers |-> IdleHandler]
    /\ reqs = [r \in TwoReqs |-> FreeReq]
    /\ debits = [m \in 1..MaxMsgs |-> 0]
    /\ credits = 0
    /\ filt = NoFilter
    /\ now = 0
    /\ js = Started
    /\ nd = [m \in 1..MaxMsgs |-> 0]

NextTwoPosts ==
    \/ \E r \in TwoReqs, dbOk \in BOOLEAN : SendSms(r, FALSE, Body(TRUE, 1, 1, ""), dbOk)
    \/ \E r \in TwoReqs, pubOk \in BOOLEAN : SendSmsPublish(r, pubOk)
    \/ BrokerStep
    \/ WorkerStep({<<1, NORMAL_SMS_CONSUMER_NAME>>})

SpecTwoPosts == InitTwoPosts /\ [][NextTwoPosts]_vars

\* The normal handler and requests whose dispatch cannot succeed, the
\* deliveries of each message counted as the consumer counts them.
NakMessages ==
    { <<MakeSubject(<<SMS, SEND, REQ>>), Marshal(Sm(Missing, 1, "pending"))>>,
      <<MakeSubject(<<SMS, SEND, REQ>>), Marshal(Sm(1, Missing, "pending"))>>,
      <<MakeSubject(<<SMS, SEND, REQ>>), Marshal(Sm(1, 1, "pending"))>> }

\* msg.Metadata().NumDelivered after one more delivery
Counted(m) == [nd EXCEPT ![m] = IF @ < MaxDeliveries THEN @ + 1 ELSE @]

NextNak ==
    \/ \E f \in NakMessages : ForeignPublish(f[1], f[2])
    \/ BrokerStep
    \/ \E m \in 1..MaxMsgs, ok \in BOOLEAN : Handle(NormalHandler, m, ok) /\ nd' = Counted(m)
    \/ HandlerStep({NormalHandler})

SpecNak == Init /\ [][NextNak]_vars

\* One worker process, store and broker answering every call, fed with
\* well-formed requests of user 1 on both streams; each handler task keeps
\* running as long as it has a step to take.
LiveBalance == 10000

LiveMessages ==
    { <<MakeSubject(q), Marshal(Sm(1, p, "pending"))>> :
          q \in {<<SMS, SEND, REQ>>, <<SMS, EX, SEND, REQ>>}, p \in DOMAIN PhoneOwner }

InitLive ==
    /\ cost \in CostReps
    /\ balance = [u \in Users |-> LiveBalance]
    /\ lock = [u \in Users |-> None]
    /\ sms = <<>>
    /\ msgs = <<>>
    /\ hs = [h \in Handlers |-> IdleHandler]
    /\ reqs = [r \in ReqIds |-> FreeReq]
    /\ debits = [m \in 1..MaxMsgs |-> 0]
    /\ credits = 0
    /\ filt = NoFilter
    /\ now = 0
    /\ js = Started
    /\ nd = [m \in 1..MaxMsgs |-> 0]

\* the steps of handler h when nothing fails
HandlerRuns(h) ==
    \/ \E m \in 1..MaxMsgs : Handle(h, m, TRUE) /\ UNCHANGED nd
    \/ AddSms(h, TRUE)
    \/ SubBalance(h, TRUE)
    \/ DoubleAck(h, TRUE)
    \/ Commit(h, TRUE)
    \/ TimerWait(h)

NextLive ==
    \/ \E f \in LiveMessages : ForeignPublish(f[1], f[2])
    \/ \E m \in 1..MaxMsgs : AckWaitExpire(m)
    \/ \E h \in Replica1 : HandlerRuns(h)

SpecLive ==
    /\ InitLive
    /\ [][NextLive]_vars
    /\ \A h \in Replica1 : WF_vars(HandlerRuns(h))

\* Dispatch transactions of both handlers of one worker and credits to user 1,
\* with every failure of store and broker and crashes of the worker.
LedgerInitial == (1 :> 500) @@ (2 :> 1000)

LedgerCredit == 500

LedgerMessages ==
    { <<MakeSubject(<<SMS, SEND, REQ>>), Marshal(Sm(1, 1, "pending"))>>,
      <<MakeSubject(<<SMS, EX, SEND, REQ>>), Marshal(Sm(1, 1, "pending"))>>,
      <<MakeSubject(<<SMS, SEND, REQ>>), Marshal(Sm(2, 2, "pending"))>>,
      <<MakeSubject(<<SMS, SEND, REQ>>), Marshal(Sm(Missing, 1, "pending"))>> }

InitLedger ==
    /\ Init
    /\ cost.Exp = 0
    /\ balance = LedgerInitial

NextLedger ==
    \/ \E f \in LedgerMessages : ForeignPublish(f[1], f[2])
    \/ AddBalance(1, LedgerCredit)
    \/ BrokerStep
    \/ WorkerStep(Replica1)
    \/ Crash(1)

SpecLedger == InitLedger /\ [][NextLedger]_vars

\* The API and the normal handler, over requests that name a user and a
\* phone number of the same or of another user.
OwnerBodies == { Body(TRUE, 1, p, "") : p \in DOMAIN PhoneOwner } \cup { Body(FALSE, 0, 0, "") }

NextOwner ==
    \/ ApiStepOf(OwnerBodies)
    \/ BrokerStep
    \/ WorkerStep({NormalHandler})

SpecOwner == Init /\ [][NextOwner]_vars

\* One handler with the clock running: requests, a status message and a
\* payload that does not decode on the stream of handler h.
TimerMessages(h) ==
    { f \in WorkerMessages : StreamOf(f[1]) = h[2] /\ Branches[f[1]] # "none" }

TimerSteps(h) ==
    \/ \E f \in TimerMessages(h) : ForeignPublish(f[1], f[2])
    \/ BrokerStep
    \/ \E m \in 1..MaxMsgs : Enter(h, m) /\ UNCHANGED nd
    \/ \E ok \in BOOLEAN : Begin(h, ok)
    \/ \E dbOk \in BOOLEAN : AddSms(h, dbOk)
    \/ \E dbOk \in BOOLEAN : SubBalance(h, dbOk)
    \/ \E ackOk \in BOOLEAN : DoubleAck(h, ackOk)
    \/ \E dbOk \in BOOLEAN : Commit(h, dbOk)
    \/ TimerFires(h)
    \/ Tick

NextTimer == TimerSteps(NormalHandler)

SpecTimer == InitTimed /\ [][NextTimer]_vars

\* Both handlers of one worker fed with the same payloads, each published on
\* the subject of either stream, with every failure of store and broker.
TwinMessages ==
    { <<MakeSubject(q \o <<REQ>>), d>> :
          q \in {<<SMS, SEND>>, <<SMS, EX, SEND>>},
          d \in {RawBytes, Marshal(Sm(1, 1, "pending")), Marshal(Sm(Missing, 1, "pending"))} }
    \cup { <<MakeSubject(q \o <<k>>), RawBytes>> :
          q \in {<<SMS, SEND>>, <<SMS, EX, SEND>>}, k \in {STAT, ERR} }

NextTwin ==
    \/ \E f \in TwinMessages : ForeignPublish(f[1], f[2])
    \/ BrokerStep
    \/ WorkerStep(Replica1)

SpecTwin == InitLedger /\ [][NextTwin]_vars

\* The API alone, over the wider set of request bodies.
NextEnvelope ==
    \/ ApiStepOf(EnvelopeBodies)
    \/ \E u \in Users : AddBalance(u, 500)

SpecEnvelope == Init /\ [][NextEnvelope]_vars

----------------------------------------------------------------------------
(* Notions the properties are stated in *)

MsgIds == 1..Len(msgs)

IsRequest(m) == Branches[msgs[m].subject] = "request"

\* committed rows of table sms that came from message m
RowsOf(m) == Cardinality({ i \in 1..Len(sms) : sms[i].from = m })

\* a handler is between DoubleAck and the return of Commit for message m
Committing(m) == \E h \in Handlers : hs[h].pc = "commit" /\ hs[h].msg = m

CostValue == Hundredths(cost)

HasRead(r) == reqs[r].read # NoRead

NormalRequest == MakeSubject(<<SMS, SEND, REQ>>)
ExpressRequest == MakeSubject(<<SMS, EX, SEND, REQ>>)

----------------------------------------------------------------------------
(* Properties *)

\* C1: every request message whose DoubleAck succeeded has, once its handler
\* is past Commit, exactly one committed SMS row and exactly one debit.
C1_AckedHasOneRowOneDebit ==
    \A m \in MsgIds :
        (IsRequest(m) /\ msgs[m].st = "acked" /\ ~Committing(m))
            => (RowsOf(m) = 1 /\ debits[m] = 1)

\* C2: a row and its debit are visible only together, and a request message
\* that left the stream was either terminated or recorded as an SMS row.
C2_NeverSilentlyConsumed ==
    \A m \in MsgIds :
        IsRequest(m) =>
            /\ RowsOf(m) = debits[m]
            /\ (~Committing(m) /\ msgs[m].st \notin {"ready", "delayed", "inflight", "termed"})
                   => RowsOf(m) >= 1

\* C3: when DoubleAck is called on a request message (the step that takes the
\* message out of the stream), the message's transaction has committed.
C3_AckOnlyAfterCommit ==
    [][ \A h \in Handlers :
          (hs[h].pc = "doubleack" /\ hs'[h].pc = "commit")
              => RowsOf(hs[h].msg) >= 1 ]_vars

\* C4: when a worker dies while it handles a request message, the message is
\* still in the stream (or was terminated) or its row is committed.
C4_NoWorkLostOnCrash ==
    [][ \A h \in Handlers :
          (hs[h].pc \in {"addsms", "subbalance", "doubleack", "commit"}
             /\ hs'[h].pc = "idle")
              => LET m == hs[h].msg
                 IN  \/ msgs'[m].st \in {"ready", "delayed", "inflight", "termed"}
                     \/ Cardinality({ i \in 1..Len(sms') : sms'[i].from = m }) >= 1 ]_vars

\* C5: an accepted request with express=true is published on
\* sms.ex.send.request, one without on sms.send.request.
C5_ExpressFlagChoosesSubject ==
    \A r \in ReqIds :
        reqs[r].status = 200 =>
            msgs[reqs[r].seq].subject =
                (IF reqs[r].express THEN ExpressRequest ELSE NormalRequest)

\* C6: a request whose user's balance is below the cost is answered 403, and
\* the step that answers it stores no message and changes no balance.
C6_AdmissionGate ==
    [][ \A r \in ReqIds :
          (reqs'[r] # reqs[r] /\ reqs'[r].read # NoRead
             /\ Hundredths(reqs'[r].read) < CostValue)
              => /\ reqs'[r].pc = "done"
                 /\ reqs'[r].status = 403
                 /\ reqs'[r].pubs = 0
                 /\ msgs' = msgs
                 /\ balance' = balance ]_vars

C6_Witness ==
    \E r \in ReqIds : reqs[r].status = 403 /\ Hundredths(reqs[r].read) < CostValue

\* C7: whatever mantissa and exponent carry the balance and the cost, a request
\* that read the balance is rejected with 403 iff balance < cost numerically.
C7_AdmissionIsNumeric ==
    \A r \in ReqIds :
        HasRead(r) => (reqs[r].status = 403 <=> Hundredths(reqs[r].read) < CostValue)

\* rejected although the balance's mantissa is the larger one
C7_Witness ==
    \E r \in ReqIds :
        /\ reqs[r].status = 403
        /\ reqs[r].read.Exp # cost.Exp
        /\ reqs[r].read.Int > cost.Int

\* C8: every user's balance is >= 0 in every reachable state.
C8_BalanceNonNegative == \A u \in Users : balance[u] >= 0

\* C9: a step of SendSms, whatever it answers, changes no balance and no SMS row.
C9_SendSmsWritesNothing ==
    [][ reqs' # reqs => (balance' = balance /\ sms' = sms /\ lock' = lock) ]_vars

\* SendSms answered 200 for a user whose balance a dispatch has already debited
C9_Witness ==
    \E r \in ReqIds :
        /\ reqs[r].status = 200
        /\ Len(sms) > 0
        /\ balance[reqs[r].body.UserID] < Hundredths(reqs[r].read)

\* C10: the step in which SendSms answers 200 is the step in which Publish
\* stored that request's message, exactly one, on the chosen subject, not yet
\* delivered to any worker.
C10_OkMeansStoredOnce ==
    [][ \A r \in ReqIds :
          (reqs'[r] # reqs[r] /\ reqs'[r].status = 200)
              => /\ reqs'[r].pubs = 1
                 /\ msgs' = Append(msgs,
                        [subject |-> reqs[r].subject,
                         data |-> Marshal(Envelope(reqs[r].body)),
                         st |-> "ready"])
                 /\ reqs'[r].seq = Len(msgs') ]_vars

\* a 200 was answered and its message is still unprocessed in the stream
C10_Witness ==
    \E r \in ReqIds :
        /\ reqs[r].status = 200
        /\ reqs[r].pubs = 1
        /\ msgs[reqs[r].seq].st = "ready"
        /\ RowsOf(reqs[r].seq) = 0

Decodes(m) == ~Unmarshal(msgs[m].data).err

\* message m is in the hands of a handler
Held(m) == \E h \in Handlers : hs[h].pc # "idle" /\ hs[h].msg = m

C13_FailedAttemptIsNakked ==
    [][ /\ \A m \in MsgIds :
              (msgs'[m].st # msgs[m].st /\ Decodes(m) /\ ~Held(m) /\ IsRequest(m)) =>
                  \* db.Begin: the delivery either opens a transaction or is nakked
                  /\ msgs[m].st = "ready" =>
                         \/ /\ msgs'[m].st = "inflight"
                            /\ \E h \in Handlers : hs'[h].pc = "addsms" /\ hs'[h].msg = m
                         \/ /\ msgs'[m].st = "delayed"
                            /\ OnDelivery(msgs[m].subject, msgs[m].data, FALSE)
                                   = NakWithDelay(Second)
                            /\ hs' = hs
                            /\ sms' = sms /\ balance' = balance /\ lock' = lock
                  \* a held-back message comes back for delivery
                  /\ msgs[m].st = "delayed" => msgs'[m].st = "ready"
        \* q.AddSms, q.SubBalance: the handler returns without DoubleAck
        /\ \A h \in Handlers :
              (hs[h].pc \in {"addsms", "subbalance"} /\ hs'[h].pc = "idle") =>
                  LET m == hs[h].msg
                  IN  /\ msgs[m].st = "inflight" => msgs'[m].st = "delayed"
                      /\ msgs'[m].st \in {"delayed", "ready"}
                      /\ sms' = sms /\ balance' = balance /\ debits' = debits
                      /\ \A u \in Users : lock'[u] # h ]_vars

\* the request of a user no row has was nakked and is held back, nothing committed
C13_Witness ==
    \E m \in MsgIds :
        /\ IsRequest(m)
        /\ Decodes(m)
        /\ Unmarshal(msgs[m].data).sms.user_id = Missing
        /\ msgs[m].st = "delayed"
        /\ ~Held(m)
        /\ RowsOf(m) = 0
        /\ debits[m] = 0

\* C14: no request message has more than one committed SMS row or more than
\* one balance debit, however often it is redelivered and whichever of the two
\* replicas handles it.
C14_AtMostOneRowAndDebit ==
    \A m \in MsgIds : IsRequest(m) => (RowsOf(m) <= 1 /\ debits[m] <= 1)

\* C15: a step that commits a dispatch transaction adds one row and lowers the
\* balance of the row's user by the cost, every other balance staying as it is.
C15_CommitDebitsPayloadUser ==
    [][ sms' # sms =>
          LET row == sms'[Len(sms')]
              u == row.user_id
          IN  /\ sms' = Append(sms, row)
              /\ row.user_id = Unmarshal(msgs[row.from].data).sms.user_id
              /\ u \in Users
              /\ balance'[u] = balance[u] - CostValue
              /\ \A v \in Users \ {u} : balance'[v] = balance[v] ]_vars

\* one transaction of user 1 has committed while another handler's transaction
\* for the same user is open, its row inserted and its debit waiting
C15_Witness ==
    /\ Len(sms) = 1
    /\ sms[1].user_id = 1
    /\ \E u \in Users : u # 1 /\ balance[u] = 1000
    /\ \E h \in Handlers :
          /\ hs[h].pc = "subbalance"
          /\ hs[h].inserted
          /\ hs[h].msg # sms[1].from
          /\ PayloadOf(h).user_id = 1

\* the tokens of S, read off the places of its dots: token k lies between
\* dot k-1 and dot k, the string's ends counting as dots 0 and last+1
DotCount(S) == Cardinality({ i \in 1..Len(S) : S[i] = Dot })

DotAt(S, k) ==
    IF k = 0 THEN 0
    ELSE IF k > DotCount(S) THEN Len(S) + 1
    ELSE CHOOSE i \in 1..Len(S) :
             S[i] = Dot /\ Cardinality({ j \in 1..i : S[j] = Dot }) = k

TokenAt(S, k) == SubSeq(S, DotAt(S, k - 1) + 1, DotAt(S, k) - 1)

\* C16: Filter answers true iff the subject, cut at its dots, has as many
\* tokens as the pattern and at every position the pattern's token is "*" or
\* equals the subject's token; a pattern of another length is rejected.
C16_FilterMatchesTokenwise ==
    filt.done =>
        /\ filt.res <=>
               /\ DotCount(filt.sub) + 1 = Len(filt.pat)
               /\ \A k \in 1..Len(filt.pat) :
                      filt.pat[k] = ANY \/ filt.pat[k] = TokenAt(filt.sub, k)
        /\ DotCount(filt.sub) + 1 # Len(filt.pat) => ~filt.res

\* "a.*" matched by the pattern (*, *): a wildcard beside a subject token "*"
C16_Witness ==
    /\ filt.done
    /\ filt.res
    /\ filt.sub = <<"a", Dot, "*">>
    /\ filt.pat = <<ANY, ANY>>

\* the sub-handler of a stream's priority
SubHandlerOf(stream) ==
    IF stream = NORMAL_SMS_CONSUMER_NAME THEN "normal" ELSE "express"

\* C17: each of the six subjects matches exactly one case of Sms.handler, the
\* normal one for sms.send.*, the express one for sms.ex.send.*; every stored
\* message and every message a handler holds is routed to the sub-handler of
\* its own stream.
C17_OneSubHandlerPerSubject ==
    /\ \A sub \in Subjects :
          /\ Filter(sub, <<SMS, SEND, ANY>>) # Filter(sub, <<SMS, EX, ANY, ANY>>)
          /\ Route(sub) = SubHandlerOf(StreamOf(sub))
    /\ \A t \in {REQ, STAT, ERR} :
          /\ Route(MakeSubject(<<SMS, SEND, t>>)) = "normal"
          /\ Route(MakeSubject(<<SMS, EX, SEND, t>>)) = "express"
    /\ \A m \in MsgIds : Route(msgs[m].subject) = SubHandlerOf(StreamOf(msgs[m].subject))
    /\ \A h \in Handlers :
          hs[h].pc # "idle" => Route(msgs[hs[h].msg].subject) = SubHandlerOf(h[2])

\* the normal and the express sub-handler are at work at the same time, each on
\* a message of its own stream
C17_Witness ==
    \E h1, h2 \in Handlers :
        /\ hs[h1].pc # "idle" /\ hs[h2].pc # "idle"
        /\ Route(msgs[hs[h1].msg].subject) = "normal"
        /\ Route(msgs[hs[h2].msg].subject) = "express"
        /\ msgs[hs[h1].msg].subject = MakeSubject(<<SMS, SEND, REQ>>)
        /\ msgs[hs[h2].msg].subject = MakeSubject(<<SMS, EX, SEND, REQ>>)

\* message m is on a status or an error subject
IsNotice(m) ==
    \E t \in {STAT, ERR} :
        msgs[m].subject \in { MakeSubject(<<SMS, SEND, t>>), MakeSubject(<<SMS, EX, SEND, t>>) }

\* C18: for a message on a status or error subject the handler calls DoubleAck;
\* the step that hands it the message leaves the message acknowledged (or, the
\* ack lost on the way, still delivered) and changes no SMS row and no balance.
C18_NoticesAreAcked ==
    [][ \A m \in MsgIds :
          IsNotice(m) =>
              /\ \A ok \in BOOLEAN :
                     OnDelivery(msgs[m].subject, msgs[m].data, ok) = DoubleAckCall
              /\ (msgs[m].st = "ready" /\ msgs'[m].st # "ready") =>
                     /\ msgs'[m].st \in {"acked", "inflight"}
                     /\ hs' = hs
                     /\ sms' = sms /\ balance' = balance /\ lock' = lock ]_vars

\* C19: an invocation of the handler that returns has called DoubleAck,
\* NakWithDelay or TermWithReason on its message, and calls nothing after a
\* DoubleAck that succeeded.
C19_EveryBranchDisposes ==
    [][ /\ \A m \in MsgIds :
              \* the invocation began and returned within the step
              (~Held(m) /\ msgs[m].st = "ready" /\ msgs'[m].st # "ready" /\ hs' = hs) =>
                  \/ msgs'[m].st \in {"termed", "delayed", "acked"}
                  \/ OnDelivery(msgs[m].subject, msgs[m].data, FALSE) = DoubleAckCall
        /\ \A h \in Handlers :
              /\ (hs[h].pc \in {"addsms", "subbalance"} /\ hs'[h].pc = "idle") =>
                     msgs'[hs[h].msg].st # "inflight"
              /\ (hs[h].pc \in {"commit", "wait"} /\ hs'[h] # hs[h]) =>
                     msgs'[hs[h].msg].st = msgs[hs[h].msg].st ]_vars

\* the stream a committed row came from
StreamOfRow(i) == StreamOf(msgs[sms[i].from].subject)

\* rows i < j are consecutive among the rows of their stream
Consecutive(i, j) ==
    /\ i < j
    /\ StreamOfRow(i) = StreamOfRow(j)
    /\ \A k \in (i + 1)..(j - 1) : StreamOfRow(k) # StreamOfRow(i)

\* C20: any two consecutive rows committed from one stream have delivered_at
\* at least that stream's rate limit apart.
C20_DeliveredAtSpacing ==
    \A i, j \in 1..Len(sms) :
        Consecutive(i, j) =>
            sms[j].delivered_at - sms[i].delivered_at >= RateLimit(StreamOfRow(i))

\* the step is a call on a Base or Consumer, and it repeats the call before it
RepeatsCall(name) ==
    /\ js'.calls = js.calls + 1
    /\ js'.last.name = name
    /\ js.last.name = name
    /\ js'.last.w = js.last.w
    /\ js'.last.args = js.last.args

\* C22: a call of BindStreams that returns nil right after a call with the
\* same configs that returned nil leaves the broker's streams with their
\* configs, the map Streams and everything else of the object as they were;
\* and it returns nil whenever the broker answers.
C22_BindStreamsIdempotent ==
    [][ (RepeatsCall("BindStreams") /\ ~js.last.err) =>
            /\ ~js'.last.err =>
                   /\ js'.streams = js.streams
                   /\ js'.durables = js.durables
                   /\ js'.proc = js.proc
            /\ js'.last.failAt = <<0, 0>> => ~js'.last.err ]_vars

\* the worker called BindStreams twice with bindConsumer's two streams after
\* the API had bound them with its own configs
C22_Witness ==
    /\ js.calls = 3
    /\ js.last = CallOf(1, "BindStreams", <<normalSms.Stream, expressSms.Stream>>, <<0, 0>>)
    /\ js.prev = js.last
    /\ js.streams[NORMAL_SMS_CONSUMER_NAME] = normalSms.Stream
    /\ js.proc[1].obj.Streams[EXPRESS_SMS_CONSUMER_NAME] = EXPRESS_SMS_CONSUMER_NAME
    /\ js.proc[Api].obj.Streams[NORMAL_SMS_CONSUMER_NAME] = NORMAL_SMS_CONSUMER_NAME

\* C23: when StartConsumers has returned nil, every durable consumer that
\* BindConsumers bound (process 1 is the one that binds them) has a consume
\* context.
C23_StartConsumersStartsAll ==
    (js.last.name = "StartConsumers" /\ ~js.last.err) =>
        \A d \in js.durables :
            \E k \in 1..Len(js.proc[js.last.w].obj.ctxs) : js.proc[js.last.w].obj.ctxs[k] = d

\* C24: once the termination signal has reached the worker no message passes
\* from the stream to its handlers, and a transaction open when the process
\* ends is either committed, its message acknowledged, or rolled back.
C24_SignalStopsConsuming ==
    [][ \A w \in Workers :
          /\ js.proc[w].phase # "running" =>
                 \A m \in MsgIds : msgs[m].st = "ready" => msgs'[m].st = "ready"
          /\ (js.proc[w].phase = "signalled" /\ js'.proc[w].phase = "exited") =>
                 \A h \in Handlers :
                     (h[1] = w /\ hs[h].pc \in {"addsms", "subbalance", "doubleack", "commit"}) =>
                         LET m == hs[h].msg
                             rows == Cardinality({ i \in 1..Len(sms') : sms'[i].from = m })
                         IN  \/ rows >= 1 /\ msgs'[m].st = "acked"
                             \/ rows = 0 /\ \A u \in Users : lock'[u] # h ]_vars

\* C21: whatever the normal stream holds and wherever the normal handler is,
\* its rate-limit wait included, the express handler can take an express
\* message that is ready and can take each step up to the commit; the one
\* thing it may wait for is the row lock of its user, held by a normal
\* transaction that is past its debit and on its way to commit.
C21_ExpressNotBlockedByNormal ==
    LET x == ExpressHandler
    IN  /\ \A m \in MsgIds :
              (hs[x].pc = "idle" /\ msgs[m].st = "ready"
                 /\ StreamOf(msgs[m].subject) = EXPRESS_SMS_CONSUMER_NAME)
                  => ENABLED Handle(x, m, TRUE)
        /\ hs[x].pc = "addsms" => ENABLED AddSms(x, TRUE)
        /\ hs[x].pc = "subbalance" =>
               \/ ENABLED SubBalance(x, TRUE)
               \/ /\ lock[PayloadOf(x).user_id] = NormalHandler
                  /\ hs[NormalHandler].pc \in {"doubleack", "commit"}
        /\ hs[x].pc = "doubleack" => ENABLED DoubleAck(x, TRUE)
        /\ hs[x].pc = "commit" => ENABLED Commit(x, TRUE)

\* the normal handler waits on its timer after its commit, another normal
\* request is ready behind it, and an express request was committed since
C21_Witness ==
    /\ hs[NormalHandler].pc = "wait"
    /\ \E m \in MsgIds :
          /\ m # hs[NormalHandler].msg
          /\ msgs[m].subject = NormalRequest
          /\ msgs[m].st = "ready"
    /\ Len(sms) = 2
    /\ sms[1].from = hs[NormalHandler].msg
    /\ msgs[sms[2].from].subject = ExpressRequest

\* the body lacks a member the request must have
LacksRequired(body) ==
    \/ body.UserID = 0
    \/ body.PhoneNumberID = 0
    \/ body.ToPhoneNumber = ""
    \/ body.Message = ""

\* the step takes up request r and runs SendSms up to the admission check
Serves(r) == reqs[r].pc \in {"free", "done"} /\ reqs'[r] # reqs[r]

\* C25: a request whose body does not parse or lacks user_id, phone_number_id,
\* to_phone_number or message is answered 400 in the step that takes it up,
\* without a balance read and without a message stored.
C25_BadBodyIs400 ==
    [][ \A r \in ReqIds :
          (Serves(r) /\ (~reqs'[r].body.ok \/ LacksRequired(reqs'[r].body))) =>
              /\ reqs'[r].pc = "done"
              /\ reqs'[r].status = 400
              /\ reqs'[r].read = NoRead
              /\ reqs'[r].pubs = 0
              /\ msgs' = msgs
              /\ balance' = balance ]_vars

\* the body of the test (user_id alone) was answered 400 although its user
\* has the balance for a message
C25_Witness ==
    \E r \in ReqIds :
        /\ reqs[r].status = 400
        /\ reqs[r].body.ok
        /\ reqs[r].body.UserID = 1
        /\ reqs[r].body.PhoneNumberID = 0
        /\ reqs[r].body.Message = ""
        /\ balance[1] >= CostValue

\* C26: a request whose body binds and whose balance read fails (the store
\* fails, or no user row has the user_id) is answered 500 with nothing
\* published; a request whose Publish fails is answered 500; an answer of 500
\* never comes with a stored message and an answer of 200 always does.
C26_StoreOrBrokerFailureIs500 ==
    [][ \A r \in ReqIds :
          reqs'[r] # reqs[r] =>
              /\ (Serves(r) /\ ~BindJSON(reqs'[r].body).err
                    /\ (reqs'[r].body.UserID \notin Users \/ reqs'[r].read = NoRead)) =>
                     /\ reqs'[r].pc = "done"
                     /\ reqs'[r].status = 500
                     /\ reqs'[r].read = NoRead
              /\ (reqs[r].pc = "publish" /\ msgs' = msgs) =>
                     reqs'[r].pc = "done" /\ reqs'[r].status = 500
              /\ reqs'[r].status = 500 => (msgs' = msgs /\ reqs'[r].pubs = 0)
              /\ reqs'[r].status = 200 => (msgs' # msgs /\ reqs'[r].pubs = 1) ]_vars

\* admitted with a balance above the cost, then answered 500 because Publish
\* failed
C26_Witness ==
    \E r \in ReqIds :
        /\ reqs[r].status = 500
        /\ HasRead(r)
        /\ Hundredths(reqs[r].read) >= CostValue
        /\ reqs[r].pubs = 0
        /\ msgs = <<>>

C29_AdmissionIgnoresPending ==
    [][ \A r \in TwoReqs :
          (Serves(r) /\ reqs'[r].read # NoRead) =>
              LET u == reqs'[r].body.UserID
              IN  /\ Hundredths(reqs'[r].read) = balance[u]
                  /\ reqs'[r].status = 403 <=> balance[u] < CostValue
                  /\ balance[u] >= CostValue => reqs'[r].pc = "publish" ]_vars

\* both requests of user 1 were answered 200, both messages are in the
\* stream, and the balance, not yet debited, pays for one
C29_Witness ==
    /\ \A r \in TwoReqs : reqs[r].status = 200 /\ reqs[r].pubs = 1 /\ reqs[r].body.UserID = 1
    /\ reqs[1].seq # reqs[2].seq
    /\ \A m \in MsgIds : msgs[m].subject = NormalRequest /\ Pending(m)
    /\ sms = <<>>
    /\ CostValue <= balance[1]
    /\ balance[1] < 2 * CostValue

\* the dispatch of request m cannot succeed: a foreign key of its row has no
\* row to point to
Doomed(m) ==
    /\ IsRequest(m)
    /\ Decodes(m)
    /\ ~ForeignKeysHold(Unmarshal(msgs[m].data).sms)

\* C30: a request whose dispatch cannot succeed stays in the stream, never
\* acknowledged, never terminated, without row or debit; however often it
\* has been delivered, the broker hands it out again after the delay of the
\* nak and the handler takes it again.
C30_FailingMessageStaysForever ==
    \A m \in MsgIds :
        Doomed(m) =>
            /\ Pending(m)
            /\ RowsOf(m) = 0
            /\ debits[m] = 0
            /\ msgs[m].st = "delayed" => ENABLED NakDelayElapsed(m)
            /\ (msgs[m].st = "ready" /\ hs[NormalHandler].pc = "idle") =>
                   ENABLED Handle(NormalHandler, m, TRUE)

\* the request of a user no row has is held back after the nak of its second
\* delivery
C30_Witness ==
    \E m \in MsgIds :
        /\ Doomed(m)
        /\ Unmarshal(msgs[m].data).sms.user_id = Missing
        /\ nd[m] >= 2
        /\ msgs[m].st = "delayed"
        /\ ~Held(m)

\* C31: a handler comes to wait on its timer only in the step of tx.Commit,
\* with the message acknowledged and the row and the debit of the transaction
\* made; the step that terminates or naks a message, the step of a failed
\* DoubleAck and the step that acknowledges a status message leave the handler
\* returned, not waiting.
C31_WaitOnlyAfterCommit ==
    [][ /\ \A h \in Replica1 :
              /\ (hs'[h].pc = "wait" /\ hs[h].pc # "wait") =>
                     /\ hs[h].pc = "commit"
                     /\ hs[h].inserted /\ hs[h].debited
                     /\ msgs[hs[h].msg].st = "acked"
                     /\ Branches[msgs[hs[h].msg].subject] = "request"
              /\ (hs[h].pc = "doubleack" /\ hs'[h].pc \notin {"doubleack", "commit"}) =>
                     hs'[h].pc = "idle"
        /\ \A m \in 1..Len(msgs) :
              msgs'[m].st # msgs[m].st =>
                  /\ msgs'[m].st \in {"termed", "delayed"} =>
                         \A h \in Replica1 : hs'[h].pc = "wait" => hs'[h].msg # m
                  /\ (msgs'[m].st = "acked" /\ Branches[msgs[m].subject] = "status") =>
                         \A h \in Replica1 : hs'[h] = hs[h] /\ hs'[h].msg # m
      ]_vars

\* a handler waits on its timer after the commit of a request, while another
\* message was terminated or acknowledged as a status message
C31_Witness ==
    \E h \in Replica1 :
        /\ hs[h].pc = "wait"
        /\ msgs[hs[h].msg].st = "acked"
        /\ RowsOf(hs[h].msg) = 1
        /\ \E m \in MsgIds : m # hs[h].msg /\ msgs[m].st \in {"termed", "acked"}

\* C32: with handlers that keep running and no failing call, from some moment
\* on every published request is acknowledged and has exactly one row, the
\* table holds as many rows as requests were published and the balance of
\* user 1 is its initial value less the cost of each of them.
C32_AllEventuallyProcessed ==
    <>[]( /\ \A m \in 1..Len(msgs) : msgs[m].st = "acked" /\ RowsOf(m) = 1 /\ debits[m] = 1
          /\ Len(sms) = Len(msgs)
          /\ balance[1] = LiveBalance - Len(msgs) * CostValue
          /\ balance[2] = LiveBalance )

\* every request the broker can store was published and processed
C32_Witness ==
    /\ Len(msgs) >= 2
    /\ \A m \in 1..Len(msgs) : msgs[m].st = "acked" /\ RowsOf(m) = 1
    /\ Len(sms) = Len(msgs)
    /\ balance[1] = LiveBalance - Len(msgs) * CostValue
    /\ \A h \in Replica1 : hs[h].pc = "idle"

\* the committed rows of user u
RowsOfUser(u) == Cardinality({ i \in 1..Len(sms) : sms[i].user_id = u })

\* the credits applied to user u (user 1 alone is credited)
CreditedTo(u) == IF u = 1 THEN LedgerCredit * credits ELSE 0

\* C33: for every user, the initial balance plus the credits less the
\* balance is the cost times the number of the user's committed rows.
C33_LedgerBalances ==
    \A u \in Users :
        LedgerInitial[u] + CreditedTo(u) - balance[u] = CostValue * RowsOfUser(u)

\* user 1 was credited and has two committed rows, one by each handler; the
\* balance went below zero on the way or ends at zero
C33_Witness ==
    /\ credits >= 1
    /\ RowsOfUser(1) >= 2
    /\ \E i, j \in 1..Len(sms) :
           /\ sms[i].user_id = 1 /\ sms[j].user_id = 1
           /\ StreamOf(msgs[sms[i].from].subject) # StreamOf(msgs[sms[j].from].subject)
    /\ balance[1] = LedgerInitial[1] + LedgerCredit * credits - 2 * CostValue

\* C34: the phone number of every committed row belongs to the row's user.
C34_RowPhoneOwnedByUser ==
    \A i \in 1..Len(sms) : PhoneOwner[sms[i].phone_number_id] = sms[i].user_id

\* C35: a handler that waits on its timer has no transaction open: it holds
\* no row lock and has no uncommitted insert or debit, and the other stream's
\* handler, when it comes to its debit, can take the row lock.
C35_NoTransactionWhileWaiting ==
    \A h \in Replica1 :
        hs[h].pc = "wait" =>
            /\ \A u \in Users : lock[u] # h
            /\ ~hs[h].inserted /\ ~hs[h].debited
            /\ \A g \in Replica1 \ {h} :
                   hs[g].pc = "subbalance" => ENABLED SubBalance(g, TRUE)

\* the normal handler waits after a commit while the express handler is about
\* to debit the same user
C35_Witness ==
    /\ hs[NormalHandler].pc = "wait"
    /\ RowsOf(hs[NormalHandler].msg) = 1
    /\ hs[ExpressHandler].pc = "subbalance"
    /\ PayloadOf(ExpressHandler).user_id = Unmarshal(msgs[hs[NormalHandler].msg].data).sms.user_id

\* C36: the timer runs from the moment the handler was entered. A handler
\* that waits after its commit returns when the clock is at least the rate
\* past its entry, and once the clock is that far it can return at once.
C36_TimerRunsFromEntry ==
    /\ [](\A h \in Replica1 :
              (hs[h].pc = "wait" /\ now >= hs[h].armed + RateLimit(h[2])) =>
                  ENABLED TimerFires(h))
    /\ [][ \A h \in Replica1 :
              (hs[h].pc = "wait" /\ hs'[h].pc # "wait") =>
                  now >= hs[h].armed + RateLimit(h[2]) ]_vars

\* a handler whose transaction began after its entry and committed can return
\* now, less than the rate after the transaction began
C36_Witness ==
    \E h \in Replica1, i \in 1..Len(sms) :
        /\ hs[h].pc = "wait"
        /\ sms[i].from = hs[h].msg
        /\ now >= hs[h].armed + RateLimit(h[2])
        /\ now < sms[i].delivered_at + RateLimit(h[2])

\* the last token of the subject of message m
KindOf(m) == << msgs[m].subject[Len(msgs[m].subject)] >>

\* the handler of worker 1 that message m is delivered to
HandlerOf(m) == <<1, StreamOf(msgs[m].subject)>>

ApiBinds(call) ==
    call.w = Api /\ call.name = "BindStreams" /\ call.args = ApiStreams /\ ~call.err

WorkerBinds(call) ==
    call.w = 1 /\ call.name = "BindConsumers" /\ call.args = <<normalSms, expressSms>>
        /\ ~call.err

\* C38: when the API has bound the two streams and the worker binds them
\* next, or the other way round, the second binding leaves the broker's
\* streams with the configuration the first gave them.
C38_SameConfigWhoeverBindsLast ==
    [][ ( /\ js'.calls = js.calls + 1
          /\ \/ ApiBinds(js.last) /\ WorkerBinds(js'.last)
             \/ WorkerBinds(js.last) /\ ApiBinds(js'.last) ) =>
            js'.streams = js.streams ]_vars

\* the tokens without a dot among the pattern tokens, and the non-empty
\* lists of them
DotlessTokens == { t \in PatternTokens : \A i \in 1..Len(t) : t[i] # Dot }

TokenLists == SeqsUpTo(DotlessTokens, MaxPat + 1) \ { <<>> }

\* MakeSubject of each list
SubjectOfList == [L \in TokenLists |-> MakeSubject(L)]

\* C39: when the subject is MakeSubject of a non-empty list of tokens without
\* dots, Filter answers true for that list as pattern and false for every
\* pattern of another length.
C39_MakeSubjectPassesOwnFilter ==
    filt.done =>
        \A L \in TokenLists :
            filt.sub = SubjectOfList[L] =>
                /\ filt.pat = L => filt.res
                /\ Len(filt.pat) # Len(L) => ~filt.res

\* Filter was called on the subject of a two-token list, one token empty, with
\* the list as pattern
C39_Witness ==
    /\ filt.done
    /\ filt.res
    /\ Len(filt.pat) = 2
    /\ filt.pat \in TokenLists
    /\ filt.pat[1] = <<>>
    /\ filt.pat[2] # ANY
    /\ filt.sub = SubjectOfList[filt.pat]

====
